---- MODULE Spec2Model ----
(***************************************************************************)
(* Model of the Markdown-AST-to-Block-Tree translator of                   *)
(* collab-document/src/importer/md_importer.rs (MDImporter::import).       *)
(*                                                                         *)
(* Strings are sequences of tokens (a tag such as "<aside>", a blank " ",  *)
(* or a piece of text); Option<T> is a sequence of length 0 (None) or 1    *)
(* (Some).  An mdast node is a record with the same fields for every kind. *)
(* generate_id() is a counter kept in the document under construction.     *)
(***************************************************************************)
EXTENDS Integers, Sequences, FiniteSets, TLC

VARIABLES md_node, document_data, pc

vars == <<md_node, document_data, pc>>

(* ---------------------------- bounds ---------------------------------- *)
MaxRootLen == 2
MaxCols == 7
MaxRows == 4
MaxSiblings == 4

(* ---------------------------- Option ---------------------------------- *)
None == <<>>
Some(x) == <<x>>
is_some(o) == o # <<>>
unwrap_or_default(o) == IF o = <<>> THEN "" ELSE o[1]

(* ---------------------------- strings --------------------------------- *)
RECURSIVE trim_start(_)
trim_start(s) == IF s # <<>> /\ Head(s) = " " THEN trim_start(Tail(s)) ELSE s

RECURSIVE trim_end(_)
trim_end(s) ==
  IF s # <<>> /\ s[Len(s)] = " " THEN trim_end(SubSeq(s, 1, Len(s) - 1)) ELSE s

trim(s) == trim_end(trim_start(s))

starts_with(s, t) == s # <<>> /\ s[1] = t

RECURSIVE trim_start_matches(_, _)
trim_start_matches(s, t) ==
  IF starts_with(s, t) THEN trim_start_matches(Tail(s), t) ELSE s

strip_suffix(s, t) ==
  IF s # <<>> /\ s[Len(s)] = t THEN Some(SubSeq(s, 1, Len(s) - 1)) ELSE None

\* str::find: offset (0-based) of the first occurrence
find(s, t) ==
  IF \E i \in 1..Len(s) : s[i] = t
  THEN Some((CHOOSE i \in 1..Len(s) : s[i] = t /\ \A j \in 1..(i - 1) : s[j] # t) - 1)
  ELSE None

\* &s[from..] and &s[..to] with 0-based offsets; out of range is a panic
slice_in_bounds(s, from, to) == from <= to /\ to <= Len(s)
slice(s, from, to) == SubSeq(s, from + 1, to)

is_ascii_alphanumeric(t) == t \in {"a", "b", "c", "q", "n", "s", "x"}

(* ---------------------------- mdast nodes ----------------------------- *)
Node(kind, children, value) ==
  [kind |-> kind, children |-> children, value |-> value, align |-> <<>>,
   ordered |-> FALSE, start |-> None, checked |-> None, depth |-> 0]

Text(v) == Node("Text", <<>>, v)
Image(url) == Node("Image", <<>>, url)
Html(v) == Node("Html", <<>>, v)
Paragraph(ch) == Node("Paragraph", ch, <<>>)
Root(ch) == Node("Root", ch, <<>>)
Heading(d, ch) == [Node("Heading", ch, <<>>) EXCEPT !.depth = d]
Blockquote(ch) == Node("Blockquote", ch, <<>>)
ListItem(checked, ch) == [Node("ListItem", ch, <<>>) EXCEPT !.checked = checked]
List(ordered, start, ch) ==
  [Node("List", ch, <<>>) EXCEPT !.ordered = ordered, !.start = start]
Code(v) == Node("Code", <<>>, v)
TableCell(ch) == Node("TableCell", ch, <<>>)
TableRow(ch) == Node("TableRow", ch, <<>>)
Table(align, rows) == [Node("Table", rows, <<>>) EXCEPT !.align = align]

(* ---------------------------- document -------------------------------- *)
\* HashMap::entry(k).or_default() and insert(k, v)
Put(m, k, v) == [x \in DOMAIN m \cup {k} |-> IF x = k THEN v ELSE m[x]]

EmptyMap == [x \in {} |-> <<>>]

BlockData_new == EmptyMap

NewDocumentData(document_id) ==
  [page_id |-> document_id, blocks |-> EmptyMap, children_map |-> EmptyMap,
   text_map |-> EmptyMap, next_id |-> 1, panicked |-> FALSE,
   walked |-> {}, emitted |-> {}, regions |-> {}]

\* generate_id(): the id the next call returns, and the allocator after it
generate_id(doc) == ToString(doc.next_id)
after_generate_id(doc) == [doc EXCEPT !.next_id = @ + 1]

\* mutant: links under the defaulted parent id even when no parent is given
update_children_map_defaulted(doc, parent_id, child_id) ==
  LET parent == unwrap_or_default(parent_id)
      old == IF parent \in DOMAIN doc.children_map
             THEN doc.children_map[parent] ELSE <<>>
  IN [doc EXCEPT !.children_map = Put(@, parent, Append(old, child_id))]

update_children_map(doc, parent_id, child_id) ==
  IF is_some(parent_id)
  THEN LET parent == parent_id[1]
           old == IF parent \in DOMAIN doc.children_map
                  THEN doc.children_map[parent] ELSE <<>>
       IN [doc EXCEPT !.children_map = Put(@, parent, Append(old, child_id))]
  ELSE doc

ensure_children_map_entry(doc, block_id) ==
  IF block_id \in DOMAIN doc.children_map THEN doc
  ELSE [doc EXCEPT !.children_map = Put(@, block_id, <<>>)]

insert_block(doc, block) == [doc EXCEPT !.blocks = Put(@, block.id, block)]

(* ------------------- helpers of importer/util.rs ---------------------- *)
\* The inline kinds of the Inline Classifier.
is_inline_node(node) ==
  node.kind \in {"Text", "InlineCode", "InlineMath", "Strong", "Emphasis",
                 "Delete", "Link", "Break"}

InlineAttribute(kind) ==
  CASE kind = "Strong" -> {"bold"}
    [] kind = "Emphasis" -> {"italic"}
    [] kind = "Delete" -> {"strikethrough"}
    [] kind = "Link" -> {"href"}
    [] kind = "InlineCode" -> {"code"}
    [] kind = "InlineMath" -> {"formula"}
    [] OTHER -> {}

\* The delta runs of one inline subtree; attributes union along the path.
RECURSIVE inline_segments(_, _)
RECURSIVE inline_segments_of(_, _)
inline_segments(node, attrs) ==
  IF node.kind \in {"Text", "InlineCode", "InlineMath"}
  THEN <<[insert |-> node.value, attributes |-> attrs \cup InlineAttribute(node.kind)]>>
  ELSE IF node.kind = "Break"
  THEN <<[insert |-> <<"\n">>, attributes |-> {}]>>
  ELSE IF node.kind \in {"Strong", "Emphasis", "Delete", "Link"}
  THEN inline_segments_of(node.children, attrs \cup InlineAttribute(node.kind))
  ELSE <<>>

inline_segments_of(nodes, attrs) ==
  IF nodes = <<>> THEN <<>>
  ELSE inline_segments(Head(nodes), attrs) \o inline_segments_of(Tail(nodes), attrs)

\* Appends the runs of a delta to text_map[block_id].
insert_delta_to_text_map(doc, block_id, delta) ==
  LET old == IF block_id \in DOMAIN doc.text_map THEN doc.text_map[block_id] ELSE <<>>
  IN [doc EXCEPT !.text_map = Put(@, block_id, old \o delta)]

process_inline_mdast_node(doc, node, parent_id) ==
  IF is_some(parent_id)
  THEN insert_delta_to_text_map(doc, parent_id[1], inline_segments(node, {}))
  ELSE doc

\* A list container gives (items, list kind, ordered-list start).
get_mdast_node_info(node) ==
  IF node.kind = "List"
  THEN Some([children |-> node.children,
             list_type |->
               IF \E i \in 1..Len(node.children) : is_some(node.children[i].checked)
               THEN "todo_list"
               ELSE IF node.ordered THEN "numbered_list" ELSE "bulleted_list",
             start_number |-> node.start])
  ELSE None

get_mdast_node_children(node) ==
  IF node.kind \in {"Blockquote", "ListItem"} THEN Some(node.children) ELSE None

\* Block Factory: the type tag of a node under a list context.
mdast_node_type_to_block_type(node, list_type) ==
  CASE node.kind = "Root" -> "page"
    [] node.kind = "Paragraph" -> "paragraph"
    [] node.kind = "Heading" -> "heading"
    [] node.kind = "Blockquote" -> "quote"
    [] node.kind = "Code" -> "code"
    [] node.kind = "ThematicBreak" -> "divider"
    [] node.kind = "Image" -> "image"
    [] node.kind = "Table" -> "simple_table"
    [] node.kind = "ListItem" ->
         IF is_some(list_type) THEN list_type[1] ELSE "bulleted_list"
    [] OTHER -> "text"

\* Block Factory: the attribute bag of a node.
mdast_node_to_block_data(node, start_number) ==
  CASE node.kind = "Heading" -> Put(BlockData_new, "level", node.depth)
    [] node.kind = "Code" -> Put(BlockData_new, "language", "")
    [] node.kind = "ListItem" ->
         IF is_some(node.checked) THEN Put(BlockData_new, "checked", node.checked[1])
         ELSE IF is_some(start_number) THEN Put(BlockData_new, "start", start_number[1])
         ELSE BlockData_new
    [] OTHER -> BlockData_new

(* ------------------- the markdown library ----------------------------- *)
IsTag(t) ==
  t \in {"<aside>", "</aside>", "<details>", "</details>", "<summary>",
         "</summary>", "<div>"}

\* to_mdast on an inner fragment: html flow when it opens with a tag,
\* otherwise one paragraph of text; nothing for blank input.
to_mdast(s) ==
  LET t == trim(s)
  IN IF t = <<>> THEN Root(<<>>)
     ELSE IF IsTag(t[1]) THEN Root(<<Html(t)>>)
     ELSE Root(<<Paragraph(<<Text(t)>>)>>)

\* Node::to_string(): the literal value of a leaf, the text of the children
RECURSIVE node_to_string(_)
RECURSIVE nodes_to_string(_)
node_to_string(node) ==
  IF node.children = <<>> THEN node.value ELSE nodes_to_string(node.children)

nodes_to_string(nodes) ==
  IF nodes = <<>> THEN <<>>
  ELSE node_to_string(Head(nodes)) \o nodes_to_string(Tail(nodes))

(* ------------------- block constructors ------------------------------- *)
create_block(id, node, parent_id, list_type, start_number) ==
  [id |-> id,
   ty |-> mdast_node_type_to_block_type(node, list_type),
   data |-> mdast_node_to_block_data(node, start_number),
   parent |-> unwrap_or_default(parent_id),
   children |-> id,
   external_id |-> Some(id),
   external_type |-> Some("text")]

\* mutant: the image block does not record its parent
create_image_block_no_parent(block_id, url, parent_id) ==
  [id |-> block_id,
   ty |-> "image",
   data |-> Put(Put(BlockData_new, "url", url), "image_type", "external"),
   parent |-> "",
   children |-> "",
   external_id |-> None,
   external_type |-> None]

create_image_block(block_id, url, parent_id) ==
  [id |-> block_id,
   ty |-> "image",
   data |-> Put(Put(BlockData_new, "url", url), "image_type", "external"),
   parent |-> parent_id,
   children |-> "",
   external_id |-> None,
   external_type |-> None]

\* mutant: a table row built like a text-bearing block
create_simple_table_row_block_with_text(id, parent_id) ==
  [id |-> id,
   ty |-> "simple_table_row",
   data |-> BlockData_new,
   parent |-> parent_id,
   children |-> id,
   external_id |-> Some(id),
   external_type |-> Some("text")]

create_simple_table_row_block(id, parent_id) ==
  [id |-> id,
   ty |-> "simple_table_row",
   data |-> BlockData_new,
   parent |-> parent_id,
   children |-> id,
   external_id |-> None,
   external_type |-> None]

AlignKinds == {"Left", "Right", "Center", "None"}

align_str(align) ==
  CASE align = "Left" -> "left"
    [] align = "Right" -> "right"
    [] align = "Center" -> "center"
    [] OTHER -> "left"

\* row and col are 0-based, alignments.get(col) is alignments[col + 1]
create_simple_table_cell_block(id, parent_id, row, col, alignments) ==
  LET cell_data == Put(Put(BlockData_new, "row", row), "col", col)
      data == IF col + 1 <= Len(alignments)
              THEN Put(cell_data, "align", align_str(alignments[col + 1]))
              ELSE cell_data
  IN [id |-> id,
      ty |-> "simple_table_cell",
      data |-> data,
      parent |-> parent_id,
      children |-> id,
      external_id |-> None,
      external_type |-> None]

process_image(doc, image, parent_id) ==
  LET new_block_id == generate_id(doc)
      image_block == create_image_block(new_block_id, image.value, parent_id)
  IN update_children_map(
       ensure_children_map_entry(
         insert_block(after_generate_id(doc), image_block), new_block_id),
       Some(parent_id), new_block_id)

\* gives the document and the id of the new paragraph
create_paragraph_block(doc, parent_id) ==
  LET paragraph_node == Paragraph(<<>>)
      paragraph_block_id == generate_id(doc)
      paragraph_block ==
        create_block(paragraph_block_id, paragraph_node, Some(parent_id), None, None)
  IN [doc |-> update_children_map(
                ensure_children_map_entry(
                  insert_block(after_generate_id(doc), paragraph_block),
                  paragraph_block_id),
                Some(parent_id), paragraph_block_id),
      id |-> paragraph_block_id]

(* ------------------- Notion columns recognizer ------------------------ *)
RECURSIVE collect_cell_text(_)
collect_cell_text(nodes) ==
  IF nodes = <<>> THEN <<>>
  ELSE LET node == Head(nodes)
           out == IF node.kind \in {"Text", "InlineCode", "InlineMath"}
                  THEN node.value
                  ELSE IF node.kind \in {"Strong", "Emphasis", "Delete", "Link"}
                  THEN collect_cell_text(node.children)
                  ELSE <<>>
       IN out \o collect_cell_text(Tail(nodes))

is_table_cell_empty(cell) ==
  IF cell.children = <<>> THEN TRUE
  ELSE trim(collect_cell_text(cell.children)) = <<>>

all_cells_empty(row) ==
  \A j \in 1..Len(row.children) :
    row.children[j].kind = "TableCell" /\ is_table_cell_empty(row.children[j])

parse_notion_columns_table(table) ==
  IF table.children = <<>> THEN None
  ELSE
    LET header == table.children[1]
        col_count == Len(header.children)
        body_rows == Tail(table.children)
        all_body_empty ==
          \A i \in 1..Len(body_rows) :
            /\ body_rows[i].kind = "TableRow"
            /\ Len(body_rows[i].children) = col_count
            /\ all_cells_empty(body_rows[i])
    IN IF header.kind # "TableRow" THEN None
       ELSE IF col_count < 2 THEN None
       ELSE IF ~all_cells_empty(header) THEN None
       ELSE IF body_rows = <<>> THEN None
       ELSE IF all_body_empty /\ col_count < 6 THEN None
       ELSE IF ~all_body_empty /\ (col_count > 5 \/ Len(body_rows) > 3) THEN None
       ELSE Some([col_count |-> col_count, body_rows |-> body_rows])

(* ------------------- html fragments ----------------------------------- *)
\* found = FALSE is None; oob marks a slice outside the string (a panic)
extract_tag_content(input, tag) ==
  LET open == "<" \o tag \o ">"
      close == "</" \o tag \o ">"
      no == [found |-> FALSE, content |-> <<>>, rest |-> <<>>, oob |-> FALSE]
      start == find(input, open)
  IN IF ~is_some(start) THEN no
     ELSE IF ~slice_in_bounds(input, start[1] + 1, Len(input))
     THEN [no EXCEPT !.oob = TRUE]
     ELSE
       LET after_open == slice(input, start[1] + 1, Len(input))
           end == find(after_open, close)
       IN IF ~is_some(end) THEN no
          ELSE IF ~slice_in_bounds(after_open, end[1] + 1, Len(after_open))
          THEN [no EXCEPT !.oob = TRUE]
          ELSE [found |-> TRUE,
                content |-> slice(after_open, 0, end[1]),
                rest |-> slice(after_open, end[1] + 1, Len(after_open)),
                oob |-> FALSE]

parse_aside_html(html0) ==
  LET html == trim(html0)
      c0 == trim(trim_start_matches(html, "<aside>"))
      stripped == strip_suffix(c0, "</aside>")
      content == IF is_some(stripped) THEN trim(stripped[1]) ELSE c0
  IN IF ~starts_with(html, "<aside>") THEN None
     ELSE IF content = <<>> THEN Some([icon |-> <<>>, content |-> content])
     ELSE IF ~is_ascii_alphanumeric(content[1])
     THEN Some([icon |-> <<content[1]>>, content |-> trim_start(Tail(content))])
     ELSE Some([icon |-> <<>>, content |-> content])

\* found = FALSE is None
parse_details_html(html0) ==
  LET html == trim(html0)
      rest == trim_start_matches(html, "<details>")
      ex == extract_tag_content(rest, "summary")
      after_summary == ex.rest
      stripped == strip_suffix(trim(after_summary), "</details>")
      body == trim(IF is_some(stripped) THEN stripped[1] ELSE after_summary)
  IN IF ~starts_with(html, "<details>") \/ ~ex.found
     THEN [found |-> FALSE, summary |-> <<>>, body |-> <<>>, oob |-> ex.oob]
     ELSE [found |-> TRUE, summary |-> trim(ex.content), body |-> body, oob |-> FALSE]

RECURSIVE fold_inline_children(_, _, _)
fold_inline_children(doc, block_id, nodes) ==
  IF nodes = <<>> THEN doc
  ELSE LET c == Head(nodes)
           d == IF is_inline_node(c)
                THEN process_inline_mdast_node(doc, c, Some(block_id))
                ELSE insert_delta_to_text_map(doc, block_id,
                       <<[insert |-> node_to_string(c), attributes |-> {}]>>)
       IN fold_inline_children(d, block_id, Tail(nodes))

RECURSIVE fold_markdown_children(_, _, _)
fold_markdown_children(doc, block_id, nodes) ==
  IF nodes = <<>> THEN doc
  ELSE LET child == Head(nodes)
           d == IF child.kind \in {"Paragraph", "Heading"}
                THEN fold_inline_children(doc, block_id, child.children)
                ELSE insert_delta_to_text_map(doc, block_id,
                       <<[insert |-> node_to_string(child), attributes |-> {}]>>)
       IN fold_markdown_children(d, block_id, Tail(nodes))

insert_markdown_as_inline_delta(doc, block_id, markdown) ==
  LET md == trim(markdown)
  IN IF md = <<>> THEN doc
     ELSE fold_markdown_children(doc, block_id, to_mdast(md).children)

(* ------------------- the Block Walker --------------------------------- *)
\* A panic ends the call: no step runs on a document marked panicked.
RECURSIVE process_mdast_node(_, _, _, _, _, _)
RECURSIVE process_mdast_node_children(_, _, _, _, _)
RECURSIVE children_loop(_, _, _, _, _, _)
RECURSIVE aside_loop(_, _, _, _, _, _)
RECURSIVE details_loop(_, _, _, _, _, _, _)
RECURSIVE process_table_row(_, _, _, _, _)
RECURSIVE table_cells_loop(_, _, _, _, _, _)
RECURSIVE table_rows_loop(_, _, _, _)
RECURSIVE columns_loop(_, _, _, _)
RECURSIVE column_rows_loop(_, _, _, _, _)
RECURSIVE process_head_and_rest(_, _, _, _, _)

\* body of `for row in info.body_rows.iter()` for column col_index (0-based)
column_rows_loop(doc, column_id, body_rows, col_index, r) ==
  IF doc.panicked \/ r > Len(body_rows) THEN doc
  ELSE
    LET row == body_rows[r]
        skip == \/ row.kind # "TableRow"
                \/ col_index + 1 > Len(row.children)
                \/ row.children[col_index + 1].kind # "TableCell"
                \/ is_table_cell_empty(row.children[col_index + 1])
    IN IF skip THEN column_rows_loop(doc, column_id, body_rows, col_index, r + 1)
       ELSE
         LET cell == row.children[col_index + 1]
             p == create_paragraph_block(doc, column_id)
             d == process_mdast_node_children(p.doc, Some(p.id), cell.children, None, None)
         IN column_rows_loop(d, column_id, body_rows, col_index, r + 1)

\* mutant: the column loop runs once too often
columns_loop_inclusive(doc, id, info, col_index) ==
  IF doc.panicked \/ col_index > info.col_count THEN doc
  ELSE
    LET column_id == generate_id(doc)
        column_block ==
          [id |-> column_id,
           ty |-> "simple_column",
           data |-> BlockData_new,
           parent |-> id,
           children |-> column_id,
           external_id |-> Some(column_id),
           external_type |-> Some("text")]
        d1 == update_children_map(
                ensure_children_map_entry(
                  insert_block(after_generate_id(doc), column_block), column_id),
                Some(id), column_id)
        d2 == column_rows_loop(d1, column_id, info.body_rows, col_index, 1)
    IN columns_loop(d2, id, info, col_index + 1)

\* body of `for col_index in 0..info.col_count`
columns_loop(doc, id, info, col_index) ==
  IF doc.panicked \/ col_index >= info.col_count THEN doc
  ELSE
    LET column_id == generate_id(doc)
        column_block ==
          [id |-> column_id,
           ty |-> "simple_column",
           data |-> BlockData_new,
           parent |-> id,
           children |-> column_id,
           external_id |-> Some(column_id),
           external_type |-> Some("text")]
        d1 == update_children_map(
                ensure_children_map_entry(
                  insert_block(after_generate_id(doc), column_block), column_id),
                Some(id), column_id)
        d2 == column_rows_loop(d1, column_id, info.body_rows, col_index, 1)
    IN columns_loop(d2, id, info, col_index + 1)

\* body of `for (col_index, cell) in row_node.children.iter().enumerate()`
table_cells_loop(doc, row_node, row_id, row_index, align, c) ==
  IF doc.panicked \/ c > Len(row_node.children) THEN doc
  ELSE IF row_node.children[c].kind # "TableCell"
  THEN table_cells_loop(doc, row_node, row_id, row_index, align, c + 1)
  ELSE
    LET cell_node == row_node.children[c]
        cell_id == generate_id(doc)
        cell_block ==
          create_simple_table_cell_block(cell_id, row_id, row_index, c - 1, align)
        d1 == update_children_map(
                ensure_children_map_entry(
                  insert_block(after_generate_id(doc), cell_block), cell_id),
                Some(row_id), cell_id)
        p == create_paragraph_block(d1, cell_id)
        d2 == process_mdast_node_children(p.doc, Some(p.id), cell_node.children, None, None)
    IN table_cells_loop(d2, row_node, row_id, row_index, align, c + 1)

process_table_row(doc, row_node, row_index, table_id, align) ==
  LET row_id == generate_id(doc)
      row_block == create_simple_table_row_block(row_id, table_id)
      d1 == update_children_map(
              ensure_children_map_entry(
                insert_block(after_generate_id(doc), row_block), row_id),
              Some(table_id), row_id)
  IN table_cells_loop(d1, row_node, row_id, row_index, align, 1)

\* body of `for (row_index, row) in table.children.iter().enumerate()`
table_rows_loop(doc, table, id, r) ==
  IF doc.panicked \/ r > Len(table.children) THEN doc
  ELSE IF table.children[r].kind # "TableRow"
  THEN table_rows_loop(doc, table, id, r + 1)
  ELSE table_rows_loop(
         process_table_row(doc, table.children[r], r - 1, id, table.align),
         table, id, r + 1)

\* mutant: the remaining siblings are walked without the list context
process_head_and_rest_no_context(doc, node, id, list_type, start_number) ==
  LET children == get_mdast_node_children(node)[1]
  IN IF children = <<>> THEN doc
     ELSE
       LET first == Head(children)
           rest == Tail(children)
           d1 == IF first.kind = "Paragraph"
                 THEN process_mdast_node_children(doc, Some(id), first.children,
                        None, start_number)
                 ELSE doc
       IN process_mdast_node_children(d1, Some(id), rest, None, None)

\* the Blockquote | ListItem arm: the first paragraph is the block's own
\* text, the remaining siblings are its children
process_head_and_rest(doc, node, id, list_type, start_number) ==
  LET children == get_mdast_node_children(node)[1]
  IN IF children = <<>> THEN doc
     ELSE
       LET first == Head(children)
           rest == Tail(children)
           d1 == IF first.kind = "Paragraph"
                 THEN process_mdast_node_children(doc, Some(id), first.children,
                        None, start_number)
                 ELSE doc
       IN process_mdast_node_children(d1, Some(id), rest, list_type, start_number)

\* mutant: an image that is not the sole child of a paragraph is not
\* handled before the final match
block_walk_guard_no_bare_image(node, parent_id) ==
  CASE is_inline_node(node) -> "inline"
    [] node.kind = "Html" /\ trim(node.value) \in {<<"</aside>">>, <<"</details>">>} ->
         "closing"
    [] is_some(get_mdast_node_info(node)) -> "list"
    [] /\ node.kind = "Paragraph"
       /\ Len(node.children) = 1
       /\ node.children[1].kind = "Image"
       /\ is_some(parent_id) -> "paragraph_image"
    [] node.kind = "Table" /\ is_some(parse_notion_columns_table(node)) -> "columns"
    [] OTHER -> "block"

\* which of the early returns of process_mdast_node a node takes
block_walk_guard(node, parent_id) ==
  CASE is_inline_node(node) -> "inline"
    [] node.kind = "Html" /\ trim(node.value) \in {<<"</aside>">>, <<"</details>">>} ->
         "closing"
    [] is_some(get_mdast_node_info(node)) -> "list"
    [] /\ node.kind = "Paragraph"
       /\ Len(node.children) = 1
       /\ node.children[1].kind = "Image"
       /\ is_some(parent_id) -> "paragraph_image"
    [] node.kind = "Image" /\ is_some(parent_id) -> "image"
    [] node.kind = "Table" /\ is_some(parse_notion_columns_table(node)) -> "columns"
    [] OTHER -> "block"

process_mdast_node(doc0, node, parent_id, block_id, list_type, start_number) ==
  LET branch == block_walk_guard(node, parent_id)
      doc == IF branch = "inline" THEN doc0
             ELSE [doc0 EXCEPT !.walked = @ \cup
                     {[node |-> node, parent_id |-> parent_id,
                       list_type |-> list_type, start_number |-> start_number]}]
      id == IF is_some(block_id) THEN block_id[1] ELSE generate_id(doc)
      da == IF is_some(block_id) THEN doc ELSE after_generate_id(doc)
  IN
  CASE doc0.panicked -> doc0
    [] branch = "inline" -> process_inline_mdast_node(doc, node, parent_id)
    [] branch = "closing" -> doc
    [] branch = "list" ->
         LET info == get_mdast_node_info(node)[1]
         IN process_mdast_node_children(doc, parent_id, info.children,
              Some(info.list_type), info.start_number)
    [] branch = "paragraph_image" ->
         process_image(doc, node.children[1], parent_id[1])
    [] branch = "image" -> process_image(doc, node, parent_id[1])
    [] branch = "columns" ->
         LET info == parse_notion_columns_table(node)[1]
             block ==
               [id |-> id,
                ty |-> "simple_columns",
                data |-> BlockData_new,
                parent |-> unwrap_or_default(parent_id),
                children |-> id,
                external_id |-> Some(id),
                external_type |-> Some("text")]
             d1 == update_children_map(
                     ensure_children_map_entry(insert_block(da, block), id),
                     parent_id, id)
             d2 == [d1 EXCEPT !.emitted = @ \cup
                      {[node |-> node, id |-> id, parent_id |-> parent_id,
                        list_type |-> list_type, start_number |-> start_number]}]
         IN columns_loop(d2, id, info, 0)
    [] OTHER ->
         LET block == create_block(id, node, parent_id, list_type, start_number)
             d1 == update_children_map(
                     ensure_children_map_entry(insert_block(da, block), id),
                     parent_id, id)
             d2 == [d1 EXCEPT !.emitted = @ \cup
                      {[node |-> node, id |-> id, parent_id |-> parent_id,
                        list_type |-> list_type, start_number |-> start_number]}]
         IN
         CASE node.kind \in {"Root", "Paragraph", "Heading"} ->
                process_mdast_node_children(d2, Some(id), node.children, None,
                  start_number)
           [] node.kind \in {"Blockquote", "ListItem"} ->
                process_head_and_rest(d2, node, id, list_type, start_number)
           [] node.kind = "Code" ->
                insert_delta_to_text_map(d2, id,
                  <<[insert |-> node.value, attributes |-> {}]>>)
           [] node.kind = "Table" -> table_rows_loop(d2, node, id, 1)
           [] node.kind = "Image" -> [d2 EXCEPT !.panicked = TRUE]
           [] OTHER ->
                insert_delta_to_text_map(d2, id,
                  <<[insert |-> node_to_string(node), attributes |-> {}]>>)

\* record of one <aside> or <details> region of a sibling slice: the opening
\* node is children[idx], id is the callout or toggle, next_idx is where the
\* outer loop goes on
with_region(r, id, parent_id, children, idx, list_type, start_number) ==
  [r.doc EXCEPT !.regions = @ \cup
     {[children |-> children, idx |-> idx, id |-> id, parent_id |-> parent_id,
       list_type |-> list_type, start_number |-> start_number,
       next_idx |-> r.idx]}]

\* mutant: the inner loop does not stop at the closing </aside>
aside_loop_no_break(doc, callout_id, children, idx, list_type, start_number) ==
  IF doc.panicked \/ idx > Len(children) THEN [doc |-> doc, idx |-> idx]
  ELSE aside_loop(
         process_mdast_node(doc, children[idx], Some(callout_id), None, list_type,
           start_number),
         callout_id, children, idx + 1, list_type, start_number)

\* the inner `while` of the <aside> branch; gives the document and idx
aside_loop(doc, callout_id, children, idx, list_type, start_number) ==
  IF doc.panicked \/ idx > Len(children) THEN [doc |-> doc, idx |-> idx]
  ELSE IF children[idx].kind = "Html" /\ trim(children[idx].value) = <<"</aside>">>
  THEN [doc |-> doc, idx |-> idx + 1]
  ELSE aside_loop(
         process_mdast_node(doc, children[idx], Some(callout_id), None, list_type,
           start_number),
         callout_id, children, idx + 1, list_type, start_number)

\* re-parse of a details body into child blocks of the toggle
process_details_body(doc, toggle_id, body) ==
  IF trim(body) = <<>> THEN doc
  ELSE process_mdast_node_children(doc, Some(toggle_id), to_mdast(body).children,
         None, None)

\* the inner `while` of the <details> branch; gives the document and idx
details_loop(doc, toggle_id, children, idx, list_type, start_number, summary_written) ==
  IF doc.panicked \/ idx > Len(children) THEN [doc |-> doc, idx |-> idx]
  ELSE
    LET h == children[idx]
        v == trim(h.value)
    IN IF h.kind = "Html" /\ v = <<"</details>">>
       THEN [doc |-> doc, idx |-> idx + 1]
       ELSE IF h.kind = "Html" /\ ~summary_written /\ starts_with(v, "<summary>")
       THEN
         LET ex == extract_tag_content(v, "summary")
             d1 == IF ex.oob THEN [doc EXCEPT !.panicked = TRUE]
                   ELSE IF ex.found
                   THEN process_details_body(
                          insert_markdown_as_inline_delta(doc, toggle_id, ex.content),
                          toggle_id, trim(ex.rest))
                   ELSE doc
         IN details_loop(d1, toggle_id, children, idx + 1, list_type, start_number,
              summary_written \/ ex.found)
       ELSE details_loop(
              process_mdast_node(doc, h, Some(toggle_id), None, list_type,
                start_number),
              toggle_id, children, idx + 1, list_type, start_number, summary_written)

children_loop(doc, parent_id, children, idx, list_type, start_number) ==
  IF doc.panicked \/ idx > Len(children) THEN doc
  ELSE
    LET c == children[idx]
        value == trim(c.value)
        plain == children_loop(
                   process_mdast_node(doc, c, parent_id, None, list_type, start_number),
                   parent_id, children, idx + 1, list_type, start_number)
    IN
    IF c.kind # "Html" THEN plain
    ELSE IF value = <<"</aside>">> \/ value = <<"</details>">>
    THEN children_loop(doc, parent_id, children, idx + 1, list_type, start_number)
    ELSE IF is_some(parse_aside_html(value))
    THEN
      LET callout == parse_aside_html(value)[1]
          callout_id == generate_id(doc)
          data == IF callout.icon # <<>>
                  THEN Put(BlockData_new, "icon", callout.icon)
                  ELSE BlockData_new
          block ==
            [id |-> callout_id,
             ty |-> "callout",
             data |-> data,
             parent |-> unwrap_or_default(parent_id),
             children |-> callout_id,
             external_id |-> Some(callout_id),
             external_type |-> Some("text")]
          d1 == update_children_map(insert_block(after_generate_id(doc), block),
                  parent_id, callout_id)
          d2 == insert_markdown_as_inline_delta(d1, callout_id, callout.content)
          r == aside_loop(d2, callout_id, children, idx + 1, list_type, start_number)
      IN children_loop(
           with_region(r, callout_id, parent_id, children, idx, list_type, start_number),
           parent_id, children, r.idx, list_type, start_number)
    ELSE IF starts_with(value, "<details>")
    THEN
      LET toggle_id == generate_id(doc)
          block ==
            [id |-> toggle_id,
             ty |-> "toggle_list",
             data |-> BlockData_new,
             parent |-> unwrap_or_default(parent_id),
             children |-> toggle_id,
             external_id |-> Some(toggle_id),
             external_type |-> Some("text")]
          d1 == update_children_map(insert_block(after_generate_id(doc), block),
                  parent_id, toggle_id)
          details == parse_details_html(value)
          d2 == IF details.oob THEN [d1 EXCEPT !.panicked = TRUE]
                ELSE IF details.found
                THEN process_details_body(
                       insert_markdown_as_inline_delta(d1, toggle_id, details.summary),
                       toggle_id, details.body)
                ELSE d1
          r == details_loop(d2, toggle_id, children, idx + 1, list_type, start_number,
                 details.found)
      IN children_loop(
           with_region(r, toggle_id, parent_id, children, idx, list_type, start_number),
           parent_id, children, r.idx, list_type, start_number)
    ELSE plain

process_mdast_node_children(doc, parent_id, children, list_type, start_number) ==
  children_loop(doc, parent_id, children, 1, list_type, start_number)

(* ------------------- MDImporter::import ------------------------------- *)
\* to_mdast of the caller's markdown is md_node: Some(root) or None (Err)
import(document_id, md) ==
  process_mdast_node(NewDocumentData(document_id), md, None, Some(document_id),
    None, None)

(* ------------------- inputs ------------------------------------------- *)
document_id == "P"

CellEmpty == TableCell(<<>>)
CellBlank == TableCell(<<Text(<<" ">>)>>)
CellText == TableCell(<<Text(<<"a">>)>>)
CellImage == TableCell(<<Image(<<"u">>)>>)

RowOf(n, first, other) ==
  TableRow([j \in 1..n |-> IF j = 1 THEN first ELSE other])

HeaderKinds == {"empty", "blank", "text"}

HeaderRow(cols, hk) ==
  CASE hk = "empty" -> RowOf(cols, CellEmpty, CellEmpty)
    [] hk = "blank" -> RowOf(cols, CellBlank, CellBlank)
    [] OTHER -> RowOf(cols, CellText, CellEmpty)

\* a body row: its content and its length relative to the header's
RowShapes == {"empty", "text"} \X {-1, 0, 1}

ShapeRow(cols, sh) ==
  RowOf(cols + sh[2], IF sh[1] = "text" THEN CellText ELSE CellEmpty, CellEmpty)

NoAlign(cols) == [j \in 1..cols |-> "None"]

\* nrows body rows, all empty and full but one of the given shape
TableOf(cols, hk, nrows, sh, last) ==
  Table(NoAlign(cols),
    <<HeaderRow(cols, hk)>> \o
    [i \in 1..nrows |->
       IF i = (IF last THEN nrows ELSE 1) THEN ShapeRow(cols, sh)
       ELSE RowOf(cols, CellEmpty, CellEmpty)])

RecognitionTables ==
  {TableOf(cols, hk, nrows, sh, last) :
     cols \in 1..MaxCols, hk \in HeaderKinds, nrows \in 0..MaxRows,
     sh \in RowShapes, last \in BOOLEAN}

\* data tables: a two-cell header with text, any alignment, one body row
GenericTables ==
  {Table(a, <<RowOf(2, CellText, CellText), RowOf(n, c, c)>>) :
     a \in [1..2 -> AlignKinds], n \in 1..3, c \in {CellText, CellEmpty, CellImage}}

\* column layouts: an empty header and body cells with or without text
RowText == <<"a", "b">>

ColumnsTables ==
  UNION {
    {Table(NoAlign(cols), <<RowOf(cols, CellEmpty, CellEmpty)>> \o
       [i \in 1..nrows |->
          TableRow([j \in 1..cols |->
            IF filled[i][j] THEN TableCell(<<Text(<<RowText[i]>>)>>) ELSE CellEmpty])]) :
       filled \in [1..nrows -> [1..cols -> BOOLEAN]]} :
    cols \in 2..3, nrows \in 1..2}

ParaQ == Paragraph(<<Text(<<"q">>)>>)
ParaN == Paragraph(<<Text(<<"n">>)>>)
ParaImage == Paragraph(<<Image(<<"u">>)>>)
ParaMixed == Paragraph(<<Text(<<"a">>), Image(<<"u">>)>>)
ParaStrong ==
  Paragraph(<<Node("Strong", <<Node("Emphasis", <<Text(<<"a">>)>>, <<>>)>>, <<>>)>>)
AsideOpen == Html(<<"<aside>">>)
AsideClose == Html(<<"</aside>">>)
AsideWhole == Html(<<"<aside>", "!", " ", "a", "</aside>">>)
DetailsOpen == Html(<<"<details>">>)
DetailsSummary == Html(<<"<details>", "<summary>", "s", "</summary>">>)
DetailsClose == Html(<<"</details>">>)
SummaryHtml == Html(<<"<summary>", "s", "</summary>">>)
DivHtml == Html(<<"<div>">>)

BlockPool ==
  { ParaQ, ParaImage, ParaMixed, ParaStrong,
    Heading(1, <<Text(<<"a">>)>>),
    Code(<<"c">>),
    Node("ThematicBreak", <<>>, <<>>),
    Blockquote(<<>>),
    Blockquote(<<ParaQ, ParaN>>),
    Blockquote(<<ParaQ, AsideOpen, ParaN, AsideClose, Code(<<"c">>)>>),
    Blockquote(<<Code(<<"c">>), ParaN>>),
    List(FALSE, None, <<ListItem(None, <<ParaQ>>), ListItem(None, <<>>)>>),
    List(TRUE, Some(3),
      <<ListItem(None, <<ParaQ, Blockquote(<<ParaQ, ParaN>>),
                         List(FALSE, None, <<ListItem(None, <<ParaN>>)>>)>>),
        ListItem(None, <<>>)>>),
    List(FALSE, None, <<ListItem(Some(TRUE), <<ParaQ, ParaN>>)>>),
    AsideOpen, AsideClose, AsideWhole, DetailsOpen, DetailsSummary, DetailsClose,
    SummaryHtml, DivHtml,
    Table(<<"None", "Center">>,
      <<RowOf(2, CellText, CellText), RowOf(2, CellImage, CellText)>>),
    Table(NoAlign(2),
      <<RowOf(2, CellEmpty, CellEmpty), RowOf(2, CellText, CellImage)>>) }

RootChildren == UNION {[1..n -> BlockPool] : n \in 0..MaxRootLen}

\* html fragments with a body, self-closed, or with an unbalanced summary
DetailsBody == Html(<<"<details>", "<summary>", "s", "</summary>", " ", "b">>)
DetailsBare == Html(<<"<details>", " ", "b">>)
DetailsWhole ==
  Html(<<"<details>", "<summary>", "s", "</summary>", "b", "</details>">>)
SummaryUnclosed == Html(<<"<summary>", "s">>)

AsidePool == {AsideOpen, AsideClose, AsideWhole, DetailsOpen, ParaQ, Code(<<"c">>)}

DetailsPool ==
  {DetailsOpen, DetailsClose, DetailsBody, DetailsBare, DetailsWhole, SummaryHtml,
   SummaryUnclosed, ParaQ}

\* sibling slices around <aside> and <details> regions
HtmlSiblings ==
  UNION {[1..n -> AsidePool] \cup [1..n -> DetailsPool] : n \in 1..MaxSiblings}

Inputs ==
  {Root(s) : s \in RootChildren \cup HtmlSiblings} \cup
  {Root(<<t>>) : t \in RecognitionTables \cup GenericTables \cup ColumnsTables}

(* ------------------- specification ------------------------------------ *)
Init ==
  /\ md_node \in {Some(r) : r \in Inputs} \cup {None}
  /\ document_data = NewDocumentData(document_id)
  /\ pc = "start"

\* to_mdast succeeded: the walker runs on the root and import returns Ok,
\* unless a step panicked
ImportOk ==
  /\ pc = "start"
  /\ is_some(md_node)
  /\ document_data' = import(document_id, md_node[1])
  /\ pc' = IF document_data'.panicked THEN "panicked" ELSE "done"
  /\ UNCHANGED md_node

\* to_mdast failed: import returns ParseMarkdownError
ImportErr ==
  /\ pc = "start"
  /\ ~is_some(md_node)
  /\ pc' = "error"
  /\ UNCHANGED <<md_node, document_data>>

Next == ImportOk \/ ImportErr

Spec == Init /\ [][Next]_vars

Returned == pc = "done"

(* ------------------- properties --------------------------------------- *)
Blocks == document_data.blocks
ChildrenMap == document_data.children_map
TextMap == document_data.text_map
BlockIds == DOMAIN Blocks

\* the places (key, position) at which id occurs in the children lists
Occurrences(id) ==
  {kp \in UNION {{<<k, i>> : i \in 1..Len(ChildrenMap[k])} : k \in DOMAIN ChildrenMap} :
     ChildrenMap[kp[1]][kp[2]] = id}

ChildrenOf(id) == IF id \in DOMAIN ChildrenMap THEN ChildrenMap[id] ELSE <<>>

HasBlockOfType(ty) == \E id \in BlockIds : Blocks[id].ty = ty

\* C1: after import returns, every block of `blocks` is a key of
\* children_map, callouts and toggles without children included.
C1_EveryBlockHasChildrenEntry ==
  Returned => \A id \in BlockIds : id \in DOMAIN ChildrenMap

\* C2: after import returns, every key of children_map and every element of
\* a children list is a key of `blocks`.
C2_ChildrenMapIdsAreBlocks ==
  Returned =>
    \A k \in DOMAIN ChildrenMap :
      /\ k \in BlockIds
      /\ \A i \in 1..Len(ChildrenMap[k]) : ChildrenMap[k][i] \in BlockIds

C2_Witness ==
  /\ Returned
  /\ \E k \in DOMAIN ChildrenMap : k # document_id /\ Len(ChildrenMap[k]) >= 2
  /\ HasBlockOfType("callout")
  /\ HasBlockOfType("image")

\* C3: after import returns, every block but the root page occurs exactly
\* once across the children lists, under the key its `parent` names; the root
\* page occurs in no list and its parent is the empty string.
C3_SingleParent ==
  Returned =>
    /\ document_id \in BlockIds
    /\ Occurrences(document_id) = {}
    /\ Blocks[document_id].parent = ""
    /\ \A id \in BlockIds \ {document_id} :
         /\ Cardinality(Occurrences(id)) = 1
         /\ \A kp \in Occurrences(id) : Blocks[id].parent = kp[1]

C3_Witness ==
  /\ Returned
  /\ HasBlockOfType("image")
  /\ HasBlockOfType("simple_table_cell")
  /\ \E id \in BlockIds : Blocks[id].ty = "callout" /\ ChildrenOf(id) # <<>>
  /\ \E id \in BlockIds : Blocks[id].parent \notin {"", document_id}

\* C4: after import returns, no paragraph block has a children list that
\* consists of exactly one image block.
C4_NoParagraphWithOnlyAnImage ==
  Returned =>
    \A id \in BlockIds :
      (Blocks[id].ty = "paragraph" /\ Len(ChildrenOf(id)) = 1)
        => Blocks[ChildrenOf(id)[1]].ty # "image"

PureContainerTypes ==
  {"simple_table", "simple_table_row", "simple_table_cell", "image"}

HasTextLink(b) == b.external_id = Some(b.id) /\ b.external_type = Some("text")
HasNoLink(b) == b.external_id = None /\ b.external_type = None

\* C5 as stated: table containers, rows, cells and images carry no external
\* link, every other emitted block carries (id, "text").
C5_LinkUnlessPureContainer ==
  Returned =>
    \A id \in BlockIds :
      IF Blocks[id].ty \in PureContainerTypes
      THEN HasNoLink(Blocks[id]) ELSE HasTextLink(Blocks[id])

\* C5 amended: only table rows, table cells and images carry no external
\* link; every other emitted block, the simple_table container included,
\* carries (id, "text").
C5_LinkUnlessRowCellImage ==
  Returned =>
    \A id \in BlockIds :
      IF Blocks[id].ty \in {"simple_table_row", "simple_table_cell", "image"}
      THEN HasNoLink(Blocks[id]) ELSE HasTextLink(Blocks[id])

C5_Witness ==
  /\ Returned
  /\ \A ty \in PureContainerTypes : HasBlockOfType(ty)
  /\ \E id \in BlockIds : Blocks[id].ty = "simple_table" /\ HasTextLink(Blocks[id])

Emitted == document_data.emitted
Walked == document_data.walked

TextOf(id) == IF id \in DOMAIN TextMap THEN TextMap[id] ELSE <<>>

\* the tables that were emitted as a simple_table container
GenericTableEntries ==
  {e \in Emitted : e.node.kind = "Table" /\ Blocks[e.id].ty = "simple_table"}

\* C6: a generic table gives one simple_table_row per AST row in order, and
\* one simple_table_cell per cell with row = i, col = j and an align of left,
\* center or right, left when the alignment list has no entry for the column
\* or the entry is none; each cell has exactly one paragraph child.
C6_GenericTableCells ==
  Returned =>
    \A e \in GenericTableEntries :
      LET rows == ChildrenOf(e.id)
      IN /\ Len(rows) = Len(e.node.children)
         /\ \A i \in 1..Len(rows) :
              LET cells == ChildrenOf(rows[i])
              IN /\ Blocks[rows[i]].ty = "simple_table_row"
                 /\ Len(cells) = Len(e.node.children[i].children)
                 /\ \A j \in 1..Len(cells) :
                      LET b == Blocks[cells[j]]
                      IN /\ b.ty = "simple_table_cell"
                         /\ b.data["row"] = i - 1
                         /\ b.data["col"] = j - 1
                         /\ "align" \in DOMAIN b.data
                         /\ b.data["align"] \in {"left", "center", "right"}
                         /\ (j > Len(e.node.align) \/ e.node.align[j] = "None")
                              => b.data["align"] = "left"
                         /\ Len(ChildrenOf(cells[j])) = 1
                         /\ Blocks[ChildrenOf(cells[j])[1]].ty = "paragraph"

\* the tables that the recognizer takes for a Notion columns layout
ColumnsTableEntries ==
  {e \in Emitted : e.node.kind = "Table" /\ is_some(parse_notion_columns_table(e.node))}

CellHasText(cell) == trim(collect_cell_text(cell.children)) # <<>>

\* the cells of column c (1-based) that exist and have text, in row order
RECURSIVE FilledCellsOfColumn(_, _)
FilledCellsOfColumn(body_rows, c) ==
  IF body_rows = <<>> THEN <<>>
  ELSE LET row == Head(body_rows)
           here == IF c <= Len(row.children) /\ CellHasText(row.children[c])
                   THEN <<row.children[c]>> ELSE <<>>
       IN here \o FilledCellsOfColumn(Tail(body_rows), c)

\* C7: a table recognized as a Notion columns layout gives one simple_columns
\* block under the enclosing parent with col_count simple_column children in
\* column order; the children of column c are one paragraph per body row whose
\* cell at column c is non-empty, in row order, and nothing for empty cells.
C7_ColumnsLayout ==
  Returned =>
    /\ {id \in BlockIds : Blocks[id].ty = "simple_columns"} =
         {e.id : e \in ColumnsTableEntries}
    /\ \A e \in ColumnsTableEntries :
         LET col_count == Len(e.node.children[1].children)
             body_rows == Tail(e.node.children)
             columns == ChildrenOf(e.id)
             siblings == ChildrenOf(unwrap_or_default(e.parent_id))
         IN /\ Blocks[e.id].ty = "simple_columns"
            /\ Blocks[e.id].parent = unwrap_or_default(e.parent_id)
            /\ Cardinality({i \in 1..Len(siblings) : siblings[i] = e.id}) = 1
            /\ Len(columns) = col_count
            /\ \A c \in 1..Len(columns) :
                 LET paragraphs == ChildrenOf(columns[c])
                     cells == FilledCellsOfColumn(body_rows, c)
                 IN /\ Blocks[columns[c]].ty = "simple_column"
                    /\ Len(paragraphs) = Len(cells)
                    /\ \A k \in 1..Len(paragraphs) :
                         /\ Blocks[paragraphs[k]].ty = "paragraph"
                         /\ TextOf(paragraphs[k]) =
                              inline_segments_of(cells[k].children, {})

C7_Witness ==
  /\ Returned
  /\ \E e \in ColumnsTableEntries :
       /\ \E c \in 1..Len(ChildrenOf(e.id)) :
            /\ Len(ChildrenOf(ChildrenOf(e.id)[c])) = 2
            /\ TextOf(ChildrenOf(ChildrenOf(e.id)[c])[1]) #
                 TextOf(ChildrenOf(ChildrenOf(e.id)[c])[2])
       /\ \E c \in 1..Len(ChildrenOf(e.id)) : ChildrenOf(ChildrenOf(e.id)[c]) = <<>>

\* C8: import does not panic: the Image arm of the final match is not
\* reached and no tag extraction slices outside its string.
C8_NeverPanics == pc # "panicked" /\ ~document_data.panicked

C8_Witness ==
  /\ Returned
  /\ \E id \in BlockIds : Blocks[id].ty = "image" /\ Blocks[id].parent # document_id
  /\ \E id \in BlockIds : Blocks[id].ty = "toggle_list" /\ TextOf(id) # <<>>

\* the emitted quote and list blocks
HeadSplitEntries == {e \in Emitted : e.node.kind \in {"Blockquote", "ListItem"}}

AllInline(nodes) == \A i \in 1..Len(nodes) : is_inline_node(nodes[i])

WalkedAs(node, parent_id, list_type, start_number) ==
  [node |-> node, parent_id |-> parent_id, list_type |-> list_type,
   start_number |-> start_number] \in Walked

\* the block's own delta is the head paragraph's inline content and no
\* paragraph block is emitted for the head; without children, the block alone
HeadIsOwnText(e) ==
  LET children == e.node.children
  IN IF children = <<>>
     THEN ChildrenOf(e.id) = <<>> /\ e.id \notin DOMAIN TextMap
     ELSE Head(children).kind = "Paragraph" =>
            /\ AllInline(Head(children).children) =>
                 TextOf(e.id) = inline_segments_of(Head(children).children, {})
            /\ (\A i \in 2..Len(children) : children[i] # Head(children)) =>
                 ~\E w \in Walked : w.node = Head(children) /\ w.parent_id = Some(e.id)

HasHeadParagraph(e) ==
  e.node.children # <<>> /\ Head(e.node.children).kind = "Paragraph"

\* C9 as stated: the head paragraph is the block's own text, and every
\* remaining sibling is walked as a child of the block with the block's list
\* context.
C9_RestWalkedUnderBlock ==
  Returned =>
    \A e \in HeadSplitEntries :
      /\ HeadIsOwnText(e)
      /\ HasHeadParagraph(e) =>
           \A i \in 2..Len(e.node.children) :
             e.node.children[i].kind # "Html" =>
               WalkedAs(e.node.children[i], Some(e.id), e.list_type, e.start_number)

\* w walks a node under the block of e or under a callout or toggle that is
\* itself a child of that block
UnderBlockOrItsFragment(w, e) ==
  /\ is_some(w.parent_id)
  /\ \/ w.parent_id[1] = e.id
     \/ /\ w.parent_id[1] \in BlockIds
        /\ Blocks[w.parent_id[1]].ty \in {"callout", "toggle_list"}
        /\ Blocks[w.parent_id[1]].parent = e.id

\* C9 amended: the head paragraph is the block's own text, and the remaining
\* siblings go to the children-level rewriter under the block with the block's
\* list context: a sibling is walked with that context as a child of the
\* block when no Html sibling precedes it, and otherwise as a child of the
\* block or of a callout or toggle opened under the block.
C9_RestWalkedWithContext ==
  Returned =>
    \A e \in HeadSplitEntries :
      /\ HeadIsOwnText(e)
      /\ HasHeadParagraph(e) =>
           \A i \in 2..Len(e.node.children) :
             e.node.children[i].kind # "Html" =>
               /\ \E w \in Walked :
                    /\ w.node = e.node.children[i]
                    /\ w.list_type = e.list_type
                    /\ w.start_number = e.start_number
                    /\ UnderBlockOrItsFragment(w, e)
               /\ (\A j \in 2..(i - 1) : e.node.children[j].kind # "Html") =>
                    WalkedAs(e.node.children[i], Some(e.id), e.list_type,
                      e.start_number)

C9_Witness ==
  /\ Returned
  /\ \E e \in HeadSplitEntries :
       /\ e.node.kind = "ListItem"
       /\ e.list_type = Some("numbered_list")
       /\ e.start_number = Some(3)
       /\ Len(e.node.children) >= 3
       /\ TextOf(e.id) # <<>>
       /\ Len(ChildrenOf(e.id)) >= 2
  /\ \E e \in HeadSplitEntries :
       /\ e.node.kind = "Blockquote"
       /\ \E id \in BlockIds : Blocks[id].ty = "callout" /\ Blocks[id].parent = e.id
  /\ \E e \in HeadSplitEntries : e.node.children = <<>>

\* the table shape that the recognizer is said to accept
ClaimedColumnsLayout(table) ==
  /\ table.children # <<>>
  /\ LET header == table.children[1]
         col_count == Len(header.children)
         body_rows == Tail(table.children)
         body_empty ==
           \A i \in 1..Len(body_rows) :
             \A j \in 1..Len(body_rows[i].children) :
               ~CellHasText(body_rows[i].children[j])
     IN /\ col_count >= 2
        /\ \A j \in 1..col_count : ~CellHasText(header.children[j])
        /\ Len(body_rows) >= 1
        /\ \A i \in 1..Len(body_rows) : Len(body_rows[i].children) = col_count
        /\ \/ body_empty /\ col_count >= 6
           \/ ~body_empty /\ col_count <= 5 /\ Len(body_rows) <= 3

RewrittenToColumns(table) ==
  \E e \in Emitted : e.node = table /\ Blocks[e.id].ty = "simple_columns"

\* C10: a table is rewritten to simple_columns if and only if its header has
\* at least 2 cells, all empty, it has at least 1 body row, every body row has
\* as many cells as the header, and either all body cells are empty and there
\* are at least 6 columns or some body cell is non-empty and there are at most
\* 5 columns and at most 3 body rows.
C10_ColumnsIffClaimedLayout ==
  Returned =>
    \A w \in Walked :
      w.node.kind = "Table" => (RewrittenToColumns(w.node) <=> ClaimedColumnsLayout(w.node))

IsOpeningFragment(node) ==
  /\ node.kind = "Html"
  /\ \/ starts_with(trim(node.value), "<aside>")
     \/ starts_with(trim(node.value), "<details>")

\* C11: process_mdast_node is never invoked on an Html node whose trimmed
\* value begins with <aside> or <details>, at any nesting depth.
C11_WalkerNeverSeesOpeningFragment ==
  Returned => \A w \in Walked : ~IsOpeningFragment(w.node)

Regions == document_data.regions

AsideRegions ==
  {r \in Regions : starts_with(trim(r.children[r.idx].value), "<aside>")}

IsClosing(node, tag) == node.kind = "Html" /\ trim(node.value) = <<tag>>

\* position of the first closing tag after idx, Len + 1 when there is none
FirstClose(children, idx, tag) ==
  IF \E j \in (idx + 1)..Len(children) : IsClosing(children[j], tag)
  THEN CHOOSE j \in (idx + 1)..Len(children) :
         /\ IsClosing(children[j], tag)
         /\ \A k \in (idx + 1)..(j - 1) : ~IsClosing(children[k], tag)
  ELSE Len(children) + 1

\* w walks a node under the block pid or under a callout or toggle that is
\* itself a child of pid
UnderParentOrItsFragment(w, pid) ==
  /\ is_some(w.parent_id)
  /\ \/ w.parent_id[1] = pid
     \/ /\ w.parent_id[1] \in BlockIds
        /\ Blocks[w.parent_id[1]].ty \in {"callout", "toggle_list"}
        /\ Blocks[w.parent_id[1]].parent = pid

EmitsOwnBlock(node) == node.kind \in {"Paragraph", "Code", "Heading", "Blockquote"}

EmittedFor(node, id) == \E e \in Emitted : e.node = node /\ e.id = id

DetailsRegions ==
  {r \in Regions : starts_with(trim(r.children[r.idx].value), "<details>")}

\* the text of an opening <details> fragment after the tag, after its
\* <summary> element when it has one, and before a trailing </details>
FragmentBody(value) ==
  LET rest == trim_start_matches(trim(value), "<details>")
      ex == extract_tag_content(rest, "summary")
      after == IF ex.found THEN ex.rest ELSE rest
      stripped == strip_suffix(trim(after), "</details>")
  IN trim(IF is_some(stripped) THEN stripped[1] ELSE after)

\* C13: the body text inside an opening <details> fragment is re-parsed and
\* emitted as child blocks of the toggle, with or without a <summary> element
\* in the fragment.
C13_DetailsBodyBecomesChildren ==
  Returned =>
    \A r \in DetailsRegions :
      LET body == FragmentBody(r.children[r.idx].value)
          parsed == to_mdast(body).children
      IN body # <<>> =>
           \A i \in 1..Len(parsed) :
             /\ WalkedAs(parsed[i], Some(r.id), None, None)
             /\ EmitsOwnBlock(parsed[i]) =>
                  \E k \in 1..Len(ChildrenOf(r.id)) :
                    EmittedFor(parsed[i], ChildrenOf(r.id)[k])

\* the <summary> element of the opening fragment of a details region
OpeningSummary(r) ==
  extract_tag_content(trim_start_matches(trim(r.children[r.idx].value), "<details>"),
    "summary")

IsSummarySibling(node) ==
  node.kind = "Html" /\ starts_with(trim(node.value), "<summary>")

\* the <summary> siblings inside a details region
SummarySiblings(r) ==
  {k \in (r.idx + 1)..(FirstClose(r.children, r.idx, "</details>") - 1) :
     IsSummarySibling(r.children[k])}

\* the text a <summary> sibling carries: up to </summary>, or all of it
SiblingSummaryText(value) ==
  LET t == trim(value)
      after == slice(t, 1, Len(t))
      end == find(after, "</summary>")
  IN trim(IF is_some(end) THEN slice(after, 0, end[1]) ELSE after)

SummaryDelta(text) ==
  IF text = <<>> THEN <<>> ELSE <<[insert |-> text, attributes |-> {}]>>

\* C14: in a details region one summary at most is folded into the toggle's
\* delta (the opening fragment's, else the first <summary> sibling's); every
\* other <summary> sibling is walked as a child of the toggle; none is skipped.
C14_OneSummaryNoneSkipped ==
  Returned =>
    \A r \in DetailsRegions :
      LET S == SummarySiblings(r)
          Folded(k) == ~OpeningSummary(r).found /\ \A j \in S : k <= j
      IN /\ OpeningSummary(r).found =>
              TextOf(r.id) = SummaryDelta(trim(OpeningSummary(r).content))
         /\ \A k \in S :
              IF Folded(k)
              THEN TextOf(r.id) = SummaryDelta(SiblingSummaryText(r.children[k].value))
              ELSE WalkedAs(r.children[k], Some(r.id), r.list_type, r.start_number)

\* C15: every child node of a Blockquote or ListItem is represented in the
\* output: the head paragraph as the block's own text, every other child
\* (a first child that is not a Paragraph included) as a block under it.
C15_NoChildOfQuoteOrItemLost ==
  Returned =>
    \A e \in HeadSplitEntries :
      /\ HeadIsOwnText(e)
      /\ \A i \in 1..Len(e.node.children) :
           LET c == e.node.children[i]
           IN ( /\ ~is_inline_node(c)
                /\ c.kind # "Html"
                /\ ~(i = 1 /\ c.kind = "Paragraph") ) =>
                \E w \in Walked : w.node = c /\ UnderParentOrItsFragment(w, e.id)

\* an opening fragment that holds its own closing tag in the same node
IsSelfClosed(node) ==
  LET v == trim(node.value)
  IN /\ node.kind = "Html"
     /\ \/ starts_with(v, "<aside>") /\ is_some(strip_suffix(v, "</aside>"))
        \/ starts_with(v, "<details>") /\ is_some(strip_suffix(v, "</details>"))

\* C16: after an opening fragment that is closed in the same node, the
\* following siblings are emitted under the enclosing parent, not as children
\* of the callout or toggle.
C16_SelfClosedFragmentEndsItsRegion ==
  Returned =>
    \A r \in Regions :
      IsSelfClosed(r.children[r.idx]) =>
        \A k \in (r.idx + 1)..Len(r.children) :
          ( /\ r.children[k].kind # "Html"
            /\ ~is_inline_node(r.children[k])
            /\ \A j \in (r.idx + 1)..(k - 1) : ~IsOpeningFragment(r.children[j]) ) =>
            WalkedAs(r.children[k], r.parent_id, r.list_type, r.start_number)

====
